---- MODULE Spec2Model ----
(***************************************************************************)
(* The throttled, TTL-cached web requestor AxiosCacheableWebRequestor of   *)
(* mig-meta-compare, in its two drafts:                                    *)
(*   "full" : src/unnamed/part_000, lines 121-568 (getHeaders/getContents  *)
(*            implemented, separate fetchUrlContents / fetchUrlHeaders);   *)
(*   "lib"  : src/lib/axios-cacheable-web-requestor.js (getHeaders and     *)
(*            getContents are stubs, one fetchUrl, urlObj.path).           *)
(* A behaviour is the life of one requestor instance of one draft.         *)
(*                                                                         *)
(* JavaScript runs one synchronous segment at a time: every action below   *)
(* is the code between two awaits of one call.  Strings are TLA+ strings   *)
(* handled character by character (Len, SubSeq, \o).                       *)
(***************************************************************************)
EXTENDS Integers, Sequences, FiniteSets, TLC

VARIABLES
  draft,               \* which draft of the class this instance is
  cacheDuration,       \* this.cacheDuration (constructor option)
  fs,                  \* the file system under the cache root, with the
                       \* age Date.now() - mtime of every node, in ticks
  ioQueueOpenHandles,  \* this.ioQueueOpenHandles
  call,                \* the modelled calls: arguments, locals, position
  others,              \* file reads in progress for calls on other slots
  load,                \* the load profile of the behaviour
  instrumenting,       \* this.instrumenting
  stats,               \* this.stats
  plain,               \* the calls, the handle count and the files as the
                       \* latest step leaves them when every updateStats in
                       \* it returns at once, as it does with instrumenting
                       \* off
  xf                   \* one FetchTransformer.transform(path): its locals,
                       \* its position, what the requestor gave it

vars ==
  <<draft, cacheDuration, fs, ioQueueOpenHandles, call, others, load,
    instrumenting, stats, plain, xf>>

(***************************************************************************)
(* Bounds of the model.                                                    *)
(***************************************************************************)
MaxAge == 1            \* ages are counted up to MaxAge (no duration is above it)
MaxAttempts == 2       \* HTTP attempts of one call (the code has no cap)
NOthers == 51          \* heavy load: file operations of calls on other slots

Calls == {1, 2}        \* the calls of a behaviour, issued in this order
CacheDurations == {1}

(***************************************************************************)
(* Program constants.                                                      *)
(***************************************************************************)
ioQueueMaxHandles == 50
TWENTY_FOUR_HOURS == 86400000
NETWORK_METHODS == [GET |-> 1, HEAD |-> 2]
cachePath == "/c"
FILEDATA == "||FILEDATA||"

(***************************************************************************)
(* String helpers (String.prototype.startsWith, indexOf).                  *)
(***************************************************************************)
Ch(s, i) == SubSeq(s, i, i)

startsWith(s, p) == Len(s) >= Len(p) /\ SubSeq(s, 1, Len(p)) = p

endsWith(s, p) == Len(s) >= Len(p) /\ SubSeq(s, Len(s) - Len(p) + 1, Len(s)) = p

SetMin(S) == CHOOSE m \in S : \A k \in S : m <= k

SetMax(S) == CHOOSE m \in S : \A k \in S : m >= k

\* First position >= from of a character of chars in s, or Len(s)+1.
FirstOf(s, chars, from) ==
  LET I == {i \in from..Len(s) : Ch(s, i) \in chars}
  IN IF I = {} THEN Len(s) + 1 ELSE SetMin(I)

(***************************************************************************)
(* new URL(url): the WHATWG parser, for absolute http(s) URLs without      *)
(* credentials, port or dot segments, already in lower case.  Anything     *)
(* that does not start with a scheme is rejected (TypeError: Invalid URL). *)
(* The parsed object has hostname and pathname, and no property "path".    *)
(***************************************************************************)
SchemeOf(url) ==
  IF startsWith(url, "http://") THEN "http://"
  ELSE IF startsWith(url, "https://") THEN "https://"
  ELSE ""

ParseURL(url) ==
  LET scheme == SchemeOf(url)
      rest == SubSeq(url, Len(scheme) + 1, Len(url))
      hEnd == FirstOf(rest, {"/", "?", "#"}, 1)
      pEnd == FirstOf(rest, {"?", "#"}, 1)
      host == SubSeq(rest, 1, hEnd - 1)
      p == SubSeq(rest, hEnd, pEnd - 1)
  IN IF scheme = "" \/ host = ""
     THEN [ok |-> FALSE, hostname |-> "", pathname |-> ""]
     ELSE [ok |-> TRUE, hostname |-> host,
           pathname |-> IF p = "" THEN "/" ELSE p]

(***************************************************************************)
(* path.join / path.normalize / path.dirname (posix).  Runs of "/" are     *)
(* collapsed and a trailing "/" is kept; "." and ".." segments do not      *)
(* occur in the inputs (the URL parser has removed them).                  *)
(***************************************************************************)
RECURSIVE Collapse(_, _)
Collapse(s, i) ==
  IF i > Len(s) THEN ""
  ELSE IF Ch(s, i) = "/" /\ i < Len(s) /\ Ch(s, i + 1) = "/"
       THEN Collapse(s, i + 1)
       ELSE Ch(s, i) \o Collapse(s, i + 1)

normalize(p) == Collapse(p, 1)

pathJoin(a, b) == IF b = "" THEN normalize(a) ELSE normalize(a \o "/" \o b)

dirname(p) ==
  LET I == {i \in 1..Len(p) : Ch(p, i) = "/"}
  IN IF I = {} THEN "."
     ELSE IF SetMax(I) = 1 THEN "/" ELSE SubSeq(p, 1, SetMax(I) - 1)

\* The directories above p, the root "/" excluded.
Ancestors(p) == {SubSeq(p, 1, i - 1) : i \in {j \in 2..Len(p) : Ch(p, j) = "/"}}

(***************************************************************************)
(* JavaScript values: undefined, a string, or a response-headers object.   *)
(* A headers object carries at most the content-type header.               *)
(***************************************************************************)
NoHeaders == [has_ct |-> FALSE, ct |-> ""]

Headers(ct) == [has_ct |-> TRUE, ct |-> ct]

undefined == [t |-> "undefined", s |-> "", h |-> NoHeaders]

Str(s) == [t |-> "string", s |-> s, h |-> NoHeaders]

Obj(h) == [t |-> "object", s |-> "", h |-> h]

\* ToBoolean: what `if (!x)` tests.
Truthy(v) == v.t = "object" \/ (v.t = "string" /\ v.s # "")

\* (the string conversion of an object in place of its JSON text)
JSONstringifyAsString(h) == "[object Object]"

\* JSON.stringify of a headers object.
JSONstringify(h) ==
  IF h.has_ct THEN "{\"content-type\":\"" \o h.ct \o "\"}" ELSE "{}"

\* JSON.parse of a cached text: the headers object, or a SyntaxError.
JSONparse(text) ==
  LET pre == "{\"content-type\":\""
      post == "\"}"
  IN IF text = "{}" THEN [ok |-> TRUE, v |-> Obj(NoHeaders)]
     ELSE IF startsWith(text, pre) /\ endsWith(text, post)
               /\ Len(text) >= Len(pre) + Len(post)
          THEN [ok |-> TRUE,
                v |-> Obj(Headers(SubSeq(text, Len(pre) + 1, Len(text) - Len(post))))]
          ELSE [ok |-> FALSE, v |-> undefined]

(***************************************************************************)
(* getPathForUrl.  NoArg is an omitted argument.  In the lib draft the      *)
(* path is joined from urlObj.path, which a WHATWG URL does not have:      *)
(* path.join(cacheFolderPath, undefined) throws ERR_INVALID_ARG_TYPE.      *)
(***************************************************************************)
NoArg == 0

Methods == {NETWORK_METHODS.GET, NETWORK_METHODS.HEAD}

PathOk(p) == [ok |-> TRUE, path |-> p, err |-> ""]

PathErr(e) == [ok |-> FALSE, path |-> "", err |-> e]

ValidUrl(url) == ParseURL(url).ok

\* (a resolver that keeps one slot per URL, whatever the method)
getPathForUrlOneSlot(url, method) ==
  LET urlObj == ParseURL(url)
      basePath == pathJoin(cachePath, urlObj.pathname)
  IN IF ~urlObj.ok THEN PathErr("ERR_INVALID_URL")
     ELSE IF method \in {NETWORK_METHODS.GET, NETWORK_METHODS.HEAD}
          THEN PathOk(pathJoin(basePath, urlObj.hostname \o ".html"))
     ELSE PathErr("Unknown method")

getPathForUrlFull(url, method) ==
  LET urlObj == ParseURL(url)
      basePath == pathJoin(cachePath, urlObj.pathname)
  IN IF ~urlObj.ok THEN PathErr("ERR_INVALID_URL")
     ELSE IF method = NETWORK_METHODS.GET
          THEN PathOk(pathJoin(basePath, urlObj.hostname \o ".html"))
     ELSE IF method = NETWORK_METHODS.HEAD
          THEN PathOk(pathJoin(basePath, urlObj.hostname \o ".json"))
     ELSE PathErr("Unknown method")

getPathForUrlLib(url, method) ==
  LET urlObj == ParseURL(url)
      urlObjPath == undefined
  IN IF ~urlObj.ok THEN PathErr("ERR_INVALID_URL")
     ELSE IF urlObjPath.t # "string" THEN PathErr("ERR_INVALID_ARG_TYPE")
     ELSE LET basePath == pathJoin(cachePath, urlObjPath.s)
          IN IF method = NETWORK_METHODS.GET
             THEN PathOk(pathJoin(basePath, urlObj.hostname \o ".html"))
             ELSE IF method = NETWORK_METHODS.HEAD
                  THEN PathOk(pathJoin(basePath, urlObj.hostname \o ".json"))
                  ELSE PathErr("Unknown method")


(***************************************************************************)
(* The URLs the modelled calls use, and the files and directories their    *)
(* cache slots need.                                                       *)
(***************************************************************************)
Urls == {"", "a/x", "http://a/x", "http://a/x/", "http://a/", "http://b/a.html"}

\* getPathForUrl reads its arguments and cachePath alone: what each draft
\* gives for the modelled URLs, with a method or without one.
Resolved ==
  [d \in {"full", "lib"}, u \in Urls, m \in Methods \cup {NoArg} |->
     IF d = "lib" THEN getPathForUrlLib(u, m) ELSE getPathForUrlFull(u, m)]

getPathForUrl(d, url, method) == Resolved[d, url, method]

SlotPaths ==
  {getPathForUrlFull(u, m).path :
     <<u, m>> \in {um \in Urls \X Methods : getPathForUrlFull(um[1], um[2]).ok}}

Nodes == SlotPaths \cup UNION {Ancestors(p) : p \in SlotPaths}

(***************************************************************************)
(* The file system: every node is absent, a file or a directory.  Files    *)
(* and directories are never removed by the program.  A node carries its   *)
(* age, Date.now() - mtime, instead of its mtime: the program reads the    *)
(* clock and the mtime only in that difference.  by is history: the        *)
(* method of the store that wrote the file.                                *)
(***************************************************************************)
NoNode == [kind |-> "none", age |-> 0, data |-> "", by |-> NoArg]

DirNode == [kind |-> "dir", age |-> 0, data |-> "", by |-> NoArg]

FileNode(d, m) == [kind |-> "file", age |-> 0, data |-> d, by |-> m]

\* fs.stat: ENOTDIR below a regular file, ENOENT for a missing node.
statAsync(f, p) ==
  IF \E a \in Ancestors(p) : f[a].kind = "file" THEN [err |-> "ENOTDIR", age |-> 0]
  ELSE IF f[p].kind = "none" THEN [err |-> "ENOENT", age |-> 0]
  ELSE [err |-> "", age |-> f[p].age]

\* fs.readFile: the whole content, EISDIR for a directory.
readFileAsync(f, p) ==
  IF \E a \in Ancestors(p) : f[a].kind = "file"
  THEN [err |-> "ENOTDIR", data |-> "", by |-> NoArg]
  ELSE IF f[p].kind = "none" THEN [err |-> "ENOENT", data |-> "", by |-> NoArg]
  ELSE IF f[p].kind = "dir" THEN [err |-> "EISDIR", data |-> "", by |-> NoArg]
  ELSE [err |-> "", data |-> f[p].data, by |-> f[p].by]

\* fs.mkdir(dir, {recursive: true}): creates the missing directories of
\* the chain (a directory that gets an entry is modified); fails, creating
\* nothing, on a regular file.
mkdirAsync(f, dir) ==
  LET Chain == {d \in Ancestors(dir) \cup {dir} : d \in Nodes}
      New == {d \in Chain : f[d].kind = "none"}
  IN IF \E d \in Chain : f[d].kind = "file"
     THEN [err |-> IF f[dir].kind = "file" THEN "EEXIST" ELSE "ENOTDIR", fs |-> f]
     ELSE [err |-> "",
           fs |-> [n \in Nodes |->
                     IF n \in New THEN DirNode
                     ELSE IF \E d \in New : dirname(d) = n THEN DirNode
                     ELSE f[n]]]

\* The open(path, 'w') of fs.writeFile: creates or truncates the file.
openForWrite(f, p, m) ==
  IF \E a \in Ancestors(p) : f[a].kind = "file" THEN [err |-> "ENOTDIR", fs |-> f]
  ELSE IF \E a \in Ancestors(p) : f[a].kind = "none" THEN [err |-> "ENOENT", fs |-> f]
  ELSE IF f[p].kind = "dir" THEN [err |-> "EISDIR", fs |-> f]
  ELSE [err |-> "",
        fs |-> [n \in Nodes |->
                  IF n = p THEN FileNode("", m)
                  ELSE IF n = dirname(p) /\ f[p].kind = "none" THEN DirNode
                  ELSE f[n]]]

\* The write of fs.writeFile, after the open: the data goes to the file
\* from its first byte on, over what the file holds by then.  The open
\* emptied the file, so it holds something only if another writeFile has
\* written to it since; what that one wrote beyond the length of d stays.
writeData(f, p, d, m) ==
  LET old == f[p].data
  IN [f EXCEPT ![p] = FileNode(IF Len(old) > Len(d)
                               THEN d \o SubSeq(old, Len(d) + 1, Len(old))
                               ELSE d, m)]

\* The clock advances one tick.
older(f) ==
  [n \in Nodes |->
     IF f[n].kind # "none" /\ f[n].age < MaxAge THEN [f[n] EXCEPT !.age = @ + 1]
     ELSE f[n]]

(***************************************************************************)
(* What the injected HTTP client answers.  A response has a status, the    *)
(* headers and the body; a rejection carries a response status (axios      *)
(* rejects statuses outside 2xx) or a system error code with its errno.    *)
(***************************************************************************)
HTML == "text/html; charset=utf-8"
HTML_LATIN == "text/html; charset=iso-8859-1"
HTML_BARE == "text/html"
PDF == "application/pdf"

Response(status, h, body) ==
  [kind |-> "response", status |-> status, headers |-> h, data |-> body,
   errno |-> FALSE, code |-> ""]

Rejection(status, errno, code) ==
  [kind |-> "error", status |-> status, headers |-> NoHeaders, data |-> "",
   errno |-> errno, code |-> code]

GetOutcomes ==
  {Response(200, Headers(HTML), b) : b \in {"", "A", "B"}}
    \cup {Response(200, Headers(PDF), "A"), Response(404, Headers(HTML), "A"),
          Rejection(404, FALSE, ""), Rejection(0, TRUE, "ECONNRESET"),
          Rejection(0, TRUE, "ETIMEDOUT")}

HeadOutcomes ==
  {Response(200, Headers(HTML), ""), Response(200, Headers(PDF), ""),
   Response(404, Headers(HTML), ""),
   Rejection(404, FALSE, ""), Rejection(0, TRUE, "ECONNRESET"),
   Rejection(0, TRUE, "ETIMEDOUT")}

\* Further content types of a 200 answer to a GET: another charset, no
\* parameter at all, no content-type header.
MoreContentTypes ==
  {Response(200, Headers(HTML_LATIN), "A"), Response(200, Headers(HTML_BARE), "A"),
   Response(200, NoHeaders, "A")}

\* The answers a behaviour's client gives; wide is whether those of
\* MoreContentTypes are among them.
Outcomes(method, wide) ==
  IF method = NETWORK_METHODS.GET
  THEN GetOutcomes \cup (IF wide THEN MoreContentTypes ELSE {})
  ELSE HeadOutcomes

(***************************************************************************)
(* One call: its operation and arguments, the locals of the async          *)
(* functions it is in, where it is suspended, and how it settled.          *)
(***************************************************************************)
NoResult == [k |-> "none", v |-> undefined, err |-> ""]

NoOutcome == Rejection(0, FALSE, "")

\* op .. res are the program's; the rest is history kept for the properties:
\*   reqs   attempts of its fetch (calls of instNetReq), counted up to
\*          MaxAttempts
\*   meth   the method its latest attempt passed to instNetReq
\*   out    the answer to its latest HTTP request
\*   seen   what its metadata check found: ENOENT, another error code,
\*          freshfile, stalefile, freshdir or staledir
\*   lk     how its getFromCache settled
\*   saved  saveToCache was called (with data)
\*   fault  the error code of its file operation that failed (but for a
\*          stat that found nothing)
\*   hitBy  the method of the store whose data its cache read returned
\*   waited whether it found the limiter full and slept
\*   passed whether, while it slept at the limiter, a caller that came to
\*          the limiter after it was let in
\*   wrote  whether it created or changed a file or directory
Idle ==
  [op |-> "none", url |-> "", method |-> NoArg, data |-> "", filePath |-> "",
   pc |-> "idle", content |-> undefined, res |-> NoResult, reqs |-> 0,
   meth |-> NoArg, out |-> NoOutcome, seen |-> "", lk |-> NoResult, saved |-> FALSE,
   fault |-> "", hitBy |-> NoArg, wrote |-> FALSE, waited |-> FALSE,
   passed |-> FALSE]

Returned(v) == [k |-> "return", v |-> v, err |-> ""]

Thrown(e) == [k |-> "throw", v |-> undefined, err |-> e]

Return(r, v) == [r EXCEPT !.pc = "done", !.res = Returned(v)]

Throw(r, e) == [r EXCEPT !.pc = "done", !.res = Thrown(e)]

(***************************************************************************)
(* The statistics.  updateStats does nothing unless instrumenting; the     *)
(* wrappers instStat, instReadFile, instWriteFile and instNetReq call it   *)
(* with "+" before they await their operation and with "-" after it, in    *)
(* the try block or in the catch.                                          *)
(***************************************************************************)
NoStats ==
  [pendingRequests |-> 0, pendingStats |-> 0, pendingReads |-> 0, pendingWrites |-> 0]

\* (an updateStats whose decrement is not among its operands)
updateStatsNoDecrement(i, st, statType, op) ==
  IF ~i THEN [ok |-> TRUE, stats |-> st]
  ELSE IF op = "+"
       THEN [ok |-> TRUE, stats |-> [st EXCEPT !["pending" \o statType] = @ + 1]]
  ELSE [ok |-> FALSE, stats |-> st]

\* (an updateStats that counts whether instrumenting is set or not)
updateStatsWhenOff(i, st, statType, op) ==
  IF op = "+"
  THEN [ok |-> TRUE, stats |-> [st EXCEPT !["pending" \o statType] = @ + 1]]
  ELSE IF op = "-"
       THEN [ok |-> TRUE, stats |-> [st EXCEPT !["pending" \o statType] = @ - 1]]
  ELSE [ok |-> FALSE, stats |-> st]

\* ok is FALSE when it throws "Unknown stat update operand".
updateStats(i, st, statType, op) ==
  IF ~i THEN [ok |-> TRUE, stats |-> st]
  ELSE IF op = "+"
       THEN [ok |-> TRUE, stats |-> [st EXCEPT !["pending" \o statType] = @ + 1]]
  ELSE IF op = "-"
       THEN [ok |-> TRUE, stats |-> [st EXCEPT !["pending" \o statType] = @ - 1]]
  ELSE [ok |-> FALSE, stats |-> st]

\* The wrapper a call is suspended in, by the statistic it counts.
StatOf(pc) ==
  CASE pc = "stat" -> "Stats"
    [] pc \in {"read", "readWait"} -> "Reads"
    [] pc \in {"writeWait", "mkdir", "open", "write"} -> "Writes"
    [] pc = "net" -> "Requests"
    [] OTHER -> ""

\* The positions in which a call is inside the try block of queuedFileRead
\* or queuedFileWrite.
ReadPcs == {"read"}

WritePcs == {"mkdir", "open", "write"}

(***************************************************************************)
(* queuedFileRead / queuedFileWrite, up to their first await: the guard     *)
(* and the increment run in one segment.  A caller that finds the guard    *)
(* false sleeps ioQueueHandleWait and calls the function again.            *)
(***************************************************************************)
Step(r, h) == [rec |-> r, h |-> h]

queuedFileRead(r, h) ==
  IF h <= ioQueueMaxHandles
  THEN Step([r EXCEPT !.pc = "read"], h + 1)
  ELSE Step([r EXCEPT !.pc = "readWait", !.waited = TRUE], h)

\* The full draft creates the directory before it writes; the lib draft
\* writes at once.
queuedFileWrite(d, r, h) ==
  IF h <= ioQueueMaxHandles
  THEN Step([r EXCEPT !.pc = IF d = "lib" THEN "open" ELSE "mkdir"], h + 1)
  ELSE Step([r EXCEPT !.pc = "writeWait", !.waited = TRUE], h)

\* (a try block that forgets the decrement)
releaseOnSuccessForgotten(h) == h

\* The decrement after the awaited operation, and the one in the catch.
releaseOnSuccess(h) == h - 1

\* (a catch that forgets the decrement)
releaseOnErrorForgotten(h) == h

releaseOnError(h) == h - 1

(***************************************************************************)
(* getFromCache, up to the await of fs.stat, and its freshness test.       *)
(***************************************************************************)
\* (a lookup that asks for the metadata of the cache folder before it
\* resolves the path)
getFromCacheStartStatFirst(d, r) == [r EXCEPT !.pc = "stat", !.filePath = cachePath]

getFromCacheStart(d, r) ==
  LET gp == getPathForUrl(d, r.url, r.method)
  IN IF ~gp.ok THEN Throw([r EXCEPT !.lk = Thrown(gp.err)], gp.err)
     ELSE [r EXCEPT !.pc = "stat", !.filePath = gp.path]

isFresh(d, age, duration) ==
  IF d = "lib" THEN age < TWENTY_FOUR_HOURS ELSE age < duration

(***************************************************************************)
(* saveToCache, up to the first await.  The lib draft resolves the path    *)
(* without passing the method on.                                          *)
(***************************************************************************)
storeMethod(d, r) == IF d = "lib" THEN NoArg ELSE r.method

saveToCacheStart(d, r, data, h) ==
  LET gp == getPathForUrl(d, r.url, storeMethod(d, r))
  IN IF ~gp.ok THEN Step(Throw([r EXCEPT !.data = data, !.saved = TRUE], gp.err), h)
     ELSE queuedFileWrite(d, [r EXCEPT !.data = data, !.saved = TRUE,
                                       !.filePath = gp.path], h)

(***************************************************************************)
(* fetchUrlContents / fetchUrlHeaders: what they do with the client's      *)
(* answer: return a value, sleep and call themselves again, or throw.      *)
(***************************************************************************)
FetchReturn(v) == [act |-> "return", v |-> v]

\* (a fetch that takes the body of any response, whatever its status)
fetchUrlContentsAnyStatus(o) ==
  IF o.kind = "error"
  THEN IF o.status # 0 THEN FetchReturn(undefined)
       ELSE IF o.errno /\ o.code = "ECONNRESET" THEN [act |-> "retry", v |-> undefined]
       ELSE [act |-> "throw", v |-> undefined]
  ELSE IF ~o.headers.has_ct \/ ~startsWith(o.headers.ct, "text/html;")
       THEN FetchReturn(Str(FILEDATA))
       ELSE FetchReturn(Str(o.data))

\* (a fetch that sleeps and retries after every system error)
fetchUrlContentsRetryAll(o) ==
  IF o.kind = "error"
  THEN IF o.status # 0 THEN FetchReturn(undefined)
       ELSE IF o.errno THEN [act |-> "retry", v |-> undefined]
       ELSE [act |-> "throw", v |-> undefined]
  ELSE IF o.status # 200 THEN FetchReturn(undefined)
  ELSE IF ~o.headers.has_ct \/ ~startsWith(o.headers.ct, "text/html;")
       THEN FetchReturn(Str(FILEDATA))
       ELSE FetchReturn(Str(o.data))

fetchUrlContents(o) ==
  IF o.kind = "error"
  THEN IF o.status # 0 THEN FetchReturn(undefined)
       ELSE IF o.errno /\ o.code = "ECONNRESET" THEN [act |-> "retry", v |-> undefined]
       ELSE [act |-> "throw", v |-> undefined]
  ELSE IF o.status # 200 THEN FetchReturn(undefined)
  ELSE IF ~o.headers.has_ct \/ ~startsWith(o.headers.ct, "text/html;")
       THEN FetchReturn(Str(FILEDATA))
       ELSE FetchReturn(Str(o.data))

fetchUrlHeaders(o) ==
  IF o.kind = "error"
  THEN IF o.status # 0 THEN FetchReturn(undefined)
       ELSE IF o.errno /\ o.code = "ECONNRESET" THEN [act |-> "retry", v |-> undefined]
       ELSE [act |-> "throw", v |-> undefined]
  ELSE IF o.status # 200 THEN FetchReturn(undefined)
  ELSE FetchReturn(Obj(o.headers))

\* The lib draft's one fetch, for either method.
fetchUrl(o) ==
  IF o.kind = "error"
  THEN IF o.status # 0 THEN FetchReturn(undefined)
       ELSE IF o.errno /\ o.code = "ECONNRESET" THEN [act |-> "retry", v |-> undefined]
       ELSE [act |-> "throw", v |-> undefined]
  ELSE IF o.status # 200 THEN FetchReturn(undefined)
  ELSE IF ~o.headers.has_ct \/ o.headers.ct # "text/html; charset=utf-8"
       THEN FetchReturn(Str(FILEDATA))
       ELSE FetchReturn(Str(o.data))

\* The method the replay after a connection reset passes on: the full
\* draft's fetchUrlContents / fetchUrlHeaders have theirs built in, the lib
\* draft's fetchUrl calls itself without one.
replayMethod(d, r) == IF d = "lib" THEN NoArg ELSE r.meth

(***************************************************************************)
(* getContents / getHeaders around their awaits.                           *)
(***************************************************************************)
\* After `await this.getFromCache(...)` gave v.
afterLookupRefetches(r0, v) ==
  LET r == [r0 EXCEPT !.lk = Returned(v)]
  IN IF r.op = "getFromCache" THEN Return(r, v)
     ELSE [r EXCEPT !.pc = "net", !.reqs = 1, !.meth = r.method]

afterLookup(r0, v) ==
  LET r == [r0 EXCEPT !.lk = Returned(v)]
  IN IF r.op = "getFromCache" THEN Return(r, v)
     ELSE IF ~Truthy(v) THEN [r EXCEPT !.pc = "net", !.reqs = 1, !.meth = r.method]
     ELSE IF r.op = "getContents" THEN Return(r, v)
     ELSE LET j == JSONparse(v.s)
          IN IF j.ok THEN Return(r, j.v) ELSE Throw(r, "SyntaxError")

\* (a getter that stores whatever its fetch gave, absent included)
afterFetchStoresAbsent(d, r, v, h) ==
  saveToCacheStart(d, [r EXCEPT !.content = v],
                   IF r.op = "getContents" THEN v.s ELSE JSONstringify(v.h), h)

\* After `await this.fetchUrl...(url)` gave v.
afterFetch(d, r, v, h) ==
  IF Truthy(v)
  THEN saveToCacheStart(d, [r EXCEPT !.content = v],
                        IF r.op = "getContents" THEN v.s ELSE JSONstringify(v.h), h)
  ELSE Step(Return([r EXCEPT !.content = v], undefined), h)

\* (a getContents that skips what was not a real HTML page)
afterSaveSkipFiledata(r) ==
  IF r.op = "saveToCache" THEN Return(r, undefined)
  ELSE IF r.content = Str(FILEDATA) THEN Return(r, undefined)
  ELSE Return(r, r.content)

\* After `await this.saveToCache(...)`.
afterSave(r) ==
  IF r.op = "saveToCache" THEN Return(r, undefined) ELSE Return(r, r.content)

\* (a saveToCache that logs the error of its write and returns)
saveFailedSwallowed(r, err) == afterSave(r)

\* The catch of saveToCache: the error of the write is logged and rethrown.
saveFailed(r, err) == Throw(r, err)

Plain(calls, h, f) == [call |-> calls, handles |-> h, fs |-> f]

(***************************************************************************)
(* FetchTransformer.transform(path), src/lib/sources/sitemap-source.js.    *)
(* It awaits getHeaders for the source and the destination url, and for a  *)
(* web page getContents for both; got is what the requestor gave, in the   *)
(* order asked.  The record it returns has the fields of all its return    *)
(* statements, those a statement leaves out being "" or undefined.         *)
(***************************************************************************)
XfIdle ==
  [pc |-> "idle", sourceHeaders |-> undefined, destinationHeaders |-> undefined,
   sourceContent |-> undefined, destinationContent |-> undefined,
   errors |-> <<>>, got |-> <<>>, res |-> NoResult,
   errorStep |-> "", resourceType |-> "", fetchErrors |-> <<>>]

\* (a catch block that is empty)
caughtDropped(errors, g) == errors

\* try { x = await ... } catch (err) { errors.push(err) }: the errors
\* after it, and the value of x.
caught(errors, g) == IF g.k = "throw" THEN Append(errors, g.err) ELSE errors

assigned(g) == IF g.k = "return" THEN g.v ELSE undefined

\* return { path, errorStep, fetchErrors: errors }
XfFailure(x, step) ==
  [x EXCEPT !.pc = "done", !.res = Returned(undefined),
            !.errorStep = step, !.fetchErrors = x.errors]

\* return { path, resourceType, ... }
XfRecord(x, type) ==
  [x EXCEPT !.pc = "done", !.res = Returned(undefined), !.resourceType = type]

\* (a transform that fetches the content whatever the content type)
afterHeadersNoFileTest(x0) ==
  LET x1 == IF ~Truthy(x0.sourceHeaders)
            THEN [x0 EXCEPT !.errors = Append(@, "Source was a non-200 status")]
            ELSE x0
      x == IF ~Truthy(x1.destinationHeaders)
           THEN [x1 EXCEPT !.errors = Append(@, "Destination was a non-200 status")]
           ELSE x1
  IN IF Len(x.errors) > 0 THEN XfFailure(x, "FETCH_HEADERS")
     ELSE [x EXCEPT !.pc = "sourceContent"]

\* After both getHeaders: the two tests for missing headers, the return of
\* the failure, the test of the content type.
afterHeaders(x0) ==
  LET x1 == IF ~Truthy(x0.sourceHeaders)
            THEN [x0 EXCEPT !.errors = Append(@, "Source was a non-200 status")]
            ELSE x0
      x == IF ~Truthy(x1.destinationHeaders)
           THEN [x1 EXCEPT !.errors = Append(@, "Destination was a non-200 status")]
           ELSE x1
      h == x.sourceHeaders.h
  IN IF Len(x.errors) > 0 THEN XfFailure(x, "FETCH_HEADERS")
     ELSE IF ~h.has_ct \/ h.ct = "" \/ ~startsWith(h.ct, "text/html;")
          THEN XfRecord(x, "FILE")
     ELSE [x EXCEPT !.pc = "sourceContent"]

\* After both getContents.
afterContents(x) ==
  IF Len(x.errors) > 0 THEN XfFailure(x, "FETCH_CONTENT")
  ELSE XfRecord(x, "WEBPAGE")

(***************************************************************************)
(* The state after construction.  The constructor touches no file, so the  *)
(* cache folder is what it was: empty, or holding what an earlier run of   *)
(* getContents stored.                                                     *)
(***************************************************************************)
Empty == [n \in Nodes |-> NoNode]

Warm ==
  LET p == getPathForUrlFull("http://a/x", NETWORK_METHODS.GET).path
  IN [n \in Nodes |->
        IF n = p THEN FileNode("A", NETWORK_METHODS.GET)
        ELSE IF n \in Ancestors(p) THEN DirNode
        ELSE NoNode]

Init ==
  /\ draft \in {"full", "lib"}
  /\ cacheDuration \in CacheDurations
  /\ load \in {"light", "pair", "heavy", "probe"}
  /\ instrumenting \in (CASE load \in {"pair", "heavy"} -> BOOLEAN
                          [] load = "probe" -> {TRUE}
                          [] OTHER -> {FALSE})
  /\ stats = NoStats
  /\ fs \in (IF load = "heavy" THEN {Empty, Warm} ELSE {Empty})
  /\ ioQueueOpenHandles = 0
  /\ call = [c \in Calls |-> Idle]
  /\ others = 0
  /\ plain = Plain(call, ioQueueOpenHandles, fs)
  /\ xf = XfIdle

Running(r) == r.pc \notin {"idle", "done"}

(***************************************************************************)
(* The load profiles.  The product of every call pattern with every URL    *)
(* is out of reach, so a behaviour has one of four profiles:               *)
(*   light : the calls are on any of Urls, one after the other;            *)
(*   pair  : the calls are on OverlapUrls and may overlap, with the owner  *)
(*           having set instrumenting or not;                              *)
(*   probe : the calls are on ProbeUrls, whose slots collide, one after    *)
(*           the other, with instrumenting set;                            *)
(*   heavy : one call on PairUrls, with the cache folder empty or as an    *)
(*           earlier run of the program left it, while up to NOthers calls *)
(*           on other slots read their files, with instrumenting set or    *)
(*           not; the client answers with MoreContentTypes too (as it does *)
(*           for the lib draft's fetchUrl under every profile).            *)
(***************************************************************************)
PairUrls == {"http://a/x"}

ProbeUrls == {"", "http://a/", "http://b/a.html"}

OverlapUrls == PairUrls \cup {""}

UrlsOf(l) ==
  CASE l = "light" -> Urls
    [] l = "probe" -> ProbeUrls
    [] l = "pair" -> OverlapUrls
    [] OTHER -> PairUrls

Free(c, url) ==
  /\ call[c].pc = "idle"
  /\ url \in UrlsOf(load)
  /\ \A x \in Calls : x < c =>
       CASE load \in {"light", "probe"} -> call[x].pc = "done"
         [] load = "pair" -> call[x].pc # "idle"
         [] OTHER -> FALSE

Begin(op, url, method) == [Idle EXCEPT !.op = op, !.url = url, !.method = method]

\* What the step of a call from r0 to r, with h handles open after it,
\* comes to with the statistics: the wrapper the call leaves decrements,
\* the one it enters increments.  Were updateStats to throw, the wrapper
\* would throw in its turn (its catch calls updateStats again) and with it
\* the call, the operation it awaited being over and no other begun.
Instrumented(r0, r, h) ==
  LET from == StatOf(r0.pc)
      to == StatOf(r.pc)
      left == IF from # to /\ from # ""
              THEN updateStats(instrumenting, stats, from, "-")
              ELSE [ok |-> TRUE, stats |-> stats]
      entered == IF from # to /\ to # "" /\ left.ok
                 THEN updateStats(instrumenting, left.stats, to, "+")
                 ELSE left
  IN IF entered.ok THEN [rec |-> r, h |-> h, stats |-> entered.stats]
     ELSE [rec |-> Throw(r, "Unknown stat update operand"),
           h |-> IF r0.pc \in ReadPcs \cup WritePcs
                 THEN ioQueueOpenHandles - 1 ELSE ioQueueOpenHandles,
           stats |-> entered.stats]

\* (a retry delay that spins instead of awaiting a timer)
awaitYieldsNotInDelay(calls, c) == \A x \in Calls \ {c} : calls[x].pc # "retrySleep"

\* Every wait of a call is an await, of the client, of a file operation or
\* of timeout(...): the thread is free for the steps of the other calls,
\* whatever the calls in calls are waiting for.
awaitYields(calls, c) == TRUE

Update(c, r, h, f) ==
  /\ awaitYields(call, c)
  /\ \E i \in {Instrumented(call[c], r, h)}, p \in {Plain([call EXCEPT ![c] = r], h, f)} :
       /\ call' = [call EXCEPT ![c] = i.rec]
       /\ ioQueueOpenHandles' = i.h
       /\ stats' = i.stats
       /\ fs' = p.fs
       /\ plain' = p
       /\ UNCHANGED <<draft, cacheDuration, others, load, instrumenting, xf>>

Issue(c, r, h) == Update(c, r, h, fs)

\* (a check of the url that lets every url through)
urlMissingNever(url) == FALSE

\* The check getContents and getHeaders begin with: !url.
urlMissing(url) == url = ""

\* getContents(url) / getHeaders(url), up to the first await.
StartGet(c, op, url) ==
  /\ Free(c, url)
  /\ LET m == IF op = "getContents" THEN NETWORK_METHODS.GET ELSE NETWORK_METHODS.HEAD
         r == Begin(op, url, m)
     IN Issue(c, IF urlMissing(url) THEN Throw(r, "URL must be provided.")
                 ELSE IF draft = "lib" THEN Return(r, undefined)
                 ELSE getFromCacheStart(draft, r),
              ioQueueOpenHandles)

\* getFromCache(url, method) called on its own.  Only the lib draft is
\* driven this way: its getHeaders and getContents are stubs that call
\* nothing, while in the full draft they are what calls getFromCache.
StartGetFromCache(c, url, method) ==
  /\ Free(c, url)
  /\ draft = "lib"
  /\ Issue(c, getFromCacheStart(draft, Begin("getFromCache", url, method)),
           ioQueueOpenHandles)

\* fetchUrl(url, method) called on its own (lib draft, as above), up to the
\* await of the client.
StartFetchUrl(c, url, method) ==
  /\ Free(c, url)
  /\ draft = "lib"
  /\ ValidUrl(url)
  /\ Issue(c, [Begin("fetchUrl", url, method) EXCEPT !.pc = "net", !.reqs = 1,
                                                      !.meth = method],
           ioQueueOpenHandles)

\* saveToCache(url, method, data) called on its own (lib draft, as above).
StartSaveToCache(c, url, method, data) ==
  /\ Free(c, url)
  /\ draft = "lib"
  /\ LET st == saveToCacheStart(draft, Begin("saveToCache", url, method), data,
                                ioQueueOpenHandles)
     IN Issue(c, st.rec, st.h)

\* (a lookup that removes the entry it finds too old)
expiredUnlinked(f, p) == [f EXCEPT ![p] = NoNode]

\* The else branch of the freshness test: "Too old, need to refetch".  It
\* returns undefined; the file stays as it is.
expired(f, p) == f

\* fs.stat settles.
StatDone(c) ==
  /\ call[c].pc = "stat"
  /\ LET r == call[c]
         st == statAsync(fs, r.filePath)
     IN IF st.err = "ENOENT"
        THEN Update(c, afterLookup([r EXCEPT !.seen = "ENOENT"], undefined),
                    ioQueueOpenHandles, fs)
        ELSE IF st.err # ""
        THEN Update(c, Throw([r EXCEPT !.seen = st.err, !.lk = Thrown(st.err),
                                       !.fault = st.err], st.err),
                    ioQueueOpenHandles, fs)
        ELSE IF isFresh(draft, st.age, cacheDuration)
        THEN LET q == queuedFileRead([r EXCEPT !.seen = "fresh" \o fs[r.filePath].kind],
                                     ioQueueOpenHandles)
             IN Update(c, q.rec, q.h, fs)
        ELSE Update(c, afterLookup([r EXCEPT !.seen = "stale" \o fs[r.filePath].kind],
                                   undefined),
                    ioQueueOpenHandles, expired(fs, r.filePath))

\* (a reader that sleeps again without looking at the limiter)
ReadPollSleepsOn(c) ==
  /\ call[c].pc = "readWait"
  /\ Update(c, call[c], ioQueueOpenHandles, fs)

\* The sleep of a reader that found the limiter full is over.
ReadPoll(c) ==
  /\ call[c].pc = "readWait"
  /\ LET q == queuedFileRead(call[c], ioQueueOpenHandles)
     IN Update(c, q.rec, q.h, fs)

\* fs.readFile settles.
ReadDone(c) ==
  /\ call[c].pc = "read"
  /\ LET r == call[c]
         rd == readFileAsync(fs, r.filePath)
     IN IF rd.err # ""
        THEN Update(c, Throw([r EXCEPT !.lk = Thrown(rd.err), !.fault = rd.err], rd.err),
                    releaseOnError(ioQueueOpenHandles), fs)
        ELSE Update(c, afterLookup([r EXCEPT !.hitBy = rd.by], Str(rd.data)),
                    releaseOnSuccess(ioQueueOpenHandles), fs)

\* The HTTP request settles with answer o.
NetDone(c, o) ==
  /\ call[c].pc = "net"
  /\ o \in Outcomes(call[c].meth, draft = "lib" \/ load = "heavy")
  /\ \E r \in {[call[c] EXCEPT !.out = o]} :
       \E f \in {IF r.op = "fetchUrl" THEN fetchUrl(o)
                  ELSE IF r.op = "getContents" THEN fetchUrlContents(o)
                  ELSE fetchUrlHeaders(o)} :
         IF f.act = "retry" THEN Update(c, [r EXCEPT !.pc = "retrySleep"], ioQueueOpenHandles, fs)
         ELSE IF f.act = "throw" THEN Update(c, Throw(r, o.code), ioQueueOpenHandles, fs)
         ELSE IF r.op = "fetchUrl" THEN Update(c, Return(r, f.v), ioQueueOpenHandles, fs)
         ELSE \E a \in {afterFetch(draft, r, f.v, ioQueueOpenHandles)} :
                Update(c, a.rec, a.h, fs)

\* The 10 s sleep after a connection reset is over: the fetch calls itself,
\* and instNetReq throws on a method that is neither GET nor HEAD.
RetryWake(c) ==
  /\ call[c].pc = "retrySleep"
  /\ LET r == [call[c] EXCEPT !.reqs = IF @ < MaxAttempts THEN @ + 1 ELSE @,
                              !.meth = replayMethod(draft, call[c])]
     IN IF r.meth \in Methods
        THEN Update(c, [r EXCEPT !.pc = "net"], ioQueueOpenHandles, fs)
        ELSE Update(c, Throw(r, "Unknown Method"), ioQueueOpenHandles, fs)

\* The sleep of a writer that found the limiter full is over.
WritePoll(c) ==
  /\ call[c].pc = "writeWait"
  /\ LET q == queuedFileWrite(draft, call[c], ioQueueOpenHandles)
     IN Update(c, q.rec, q.h, fs)

\* fs.mkdir settles.
MkdirDone(c) ==
  /\ call[c].pc = "mkdir"
  /\ \E r \in {call[c]}, mk \in {mkdirAsync(fs, dirname(call[c].filePath))} :
        IF mk.err # ""
        THEN Update(c, saveFailed([r EXCEPT !.fault = mk.err], mk.err),
                    releaseOnError(ioQueueOpenHandles), fs)
        ELSE Update(c, [r EXCEPT !.pc = "open", !.wrote = @ \/ mk.fs # fs],
                    ioQueueOpenHandles, mk.fs)

\* fs.writeFile has opened (created or truncated) the file.
WriteOpen(c) ==
  /\ call[c].pc = "open"
  /\ \E r \in {call[c]}, op \in {openForWrite(fs, call[c].filePath, call[c].method)} :
        IF op.err # ""
        THEN Update(c, saveFailed([r EXCEPT !.fault = op.err], op.err),
                    releaseOnError(ioQueueOpenHandles), fs)
        ELSE Update(c, [r EXCEPT !.pc = "write", !.wrote = TRUE], ioQueueOpenHandles, op.fs)

\* fs.writeFile settles: the data is in the file.
WriteDone(c) ==
  /\ call[c].pc = "write"
  /\ LET r == call[c]
     IN Update(c, afterSave(r), releaseOnSuccess(ioQueueOpenHandles),
               writeData(fs, r.filePath, r.data, r.method))

Waiting(r) == r.pc \in {"readWait", "writeWait"}

\* The calls as a caller that is let in leaves them: it has passed those
\* that sleep at the limiter.
Passed(calls) ==
  [c \in Calls |-> IF Waiting(calls[c]) THEN [calls[c] EXCEPT !.passed = TRUE]
                   ELSE calls[c]]

\* (a limiter that lets a newcomer in only when nobody sleeps at it)
OtherStartBehindWaiters ==
  /\ load = "heavy"
  /\ others < NOthers
  /\ ioQueueOpenHandles <= ioQueueMaxHandles
  /\ \A c \in Calls : ~Waiting(call[c])
  /\ others' = others + 1
  /\ ioQueueOpenHandles' = ioQueueOpenHandles + 1
  /\ stats' = updateStats(instrumenting, stats, "Reads", "+").stats
  /\ call' = Passed(call)
  /\ UNCHANGED <<draft, cacheDuration, fs, load, instrumenting, xf>>
  /\ plain' = Plain(call', ioQueueOpenHandles', fs')

\* A call on a slot outside Urls comes to the limiter in instReadFile and
\* starts its file read ...
OtherStart ==
  /\ load = "heavy"
  /\ others < NOthers
  /\ ioQueueOpenHandles <= ioQueueMaxHandles
  /\ others' = others + 1
  /\ ioQueueOpenHandles' = ioQueueOpenHandles + 1
  /\ stats' = updateStats(instrumenting, stats, "Reads", "+").stats
  /\ call' = Passed(call)
  /\ UNCHANGED <<draft, cacheDuration, fs, load, instrumenting, xf>>
  /\ plain' = Plain(call', ioQueueOpenHandles', fs')

\* ... and its read settles.
OtherDone ==
  /\ others > 0
  /\ others' = others - 1
  /\ ioQueueOpenHandles' = releaseOnSuccess(ioQueueOpenHandles)
  /\ stats' = updateStats(instrumenting, stats, "Reads", "-").stats
  /\ UNCHANGED <<draft, cacheDuration, fs, call, load, instrumenting, xf>>
  /\ plain' = Plain(call', ioQueueOpenHandles', fs')

Tick ==
  /\ fs' = older(fs)
  /\ fs' # fs
  /\ UNCHANGED <<draft, cacheDuration, ioQueueOpenHandles, call, others, load,
                 instrumenting, stats, xf>>
  /\ plain' = Plain(call', ioQueueOpenHandles', fs')

Payloads == {"", "A"}

\* What getHeaders and getContents can give their caller.
Codes == {"ETIMEDOUT", "EISDIR", "URL must be provided."}

HeadersGiven ==
  {Returned(undefined)} \cup {Thrown(e) : e \in Codes}
    \cup {Returned(Obj(h)) : h \in {NoHeaders, Headers(HTML), Headers(HTML_LATIN),
                                     Headers(HTML_BARE), Headers(PDF)}}

ContentGiven ==
  {Returned(undefined)} \cup {Thrown(e) : e \in Codes}
    \cup {Returned(Str(b)) : b \in {"A", "B", FILEDATA}}

\* The requestor's variables, which a step of the transform leaves alone:
\* what the requestor gives is an input of the step.
requestorVars ==
  <<draft, cacheDuration, fs, ioQueueOpenHandles, call, others, load,
    instrumenting, stats, plain>>

\* transform(path), up to the await of getHeaders(sourceUrl).
TransformStart ==
  /\ xf.pc = "idle"
  /\ xf' = [xf EXCEPT !.pc = "sourceHeaders"]
  /\ UNCHANGED requestorVars

\* getHeaders(sourceUrl) settles.
SourceHeadersDone(g) ==
  /\ xf.pc = "sourceHeaders"
  /\ xf' = [xf EXCEPT !.pc = "destinationHeaders", !.got = Append(@, g),
                       !.sourceHeaders = assigned(g), !.errors = caught(@, g)]
  /\ UNCHANGED requestorVars

\* getHeaders(destinationUrl) settles.
DestinationHeadersDone(g) ==
  /\ xf.pc = "destinationHeaders"
  /\ xf' = afterHeaders([xf EXCEPT !.got = Append(@, g),
                                    !.destinationHeaders = assigned(g),
                                    !.errors = caught(@, g)])
  /\ UNCHANGED requestorVars

\* getContents(sourceUrl) settles.
SourceContentDone(g) ==
  /\ xf.pc = "sourceContent"
  /\ xf' = [xf EXCEPT !.pc = "destinationContent", !.got = Append(@, g),
                       !.sourceContent = assigned(g), !.errors = caught(@, g)]
  /\ UNCHANGED requestorVars

\* getContents(destinationUrl) settles.
DestinationContentDone(g) ==
  /\ xf.pc = "destinationContent"
  /\ xf' = afterContents([xf EXCEPT !.got = Append(@, g),
                                     !.destinationContent = assigned(g),
                                     !.errors = caught(@, g)])
  /\ UNCHANGED requestorVars

TransformInit == Init /\ draft = "lib" /\ load = "light"

TransformNext ==
  \/ TransformStart
  \/ \E g \in HeadersGiven : SourceHeadersDone(g)
  \/ \E g \in HeadersGiven : DestinationHeadersDone(g)
  \/ \E g \in ContentGiven : SourceContentDone(g)
  \/ \E g \in ContentGiven : DestinationContentDone(g)

TransformSpec == TransformInit /\ [][TransformNext]_vars

Next ==
  \/ \E c \in Calls, op \in {"getContents", "getHeaders"}, u \in Urls : StartGet(c, op, u)
  \/ \E c \in Calls, u \in Urls, m \in Methods : StartGetFromCache(c, u, m)
  \/ \E c \in Calls, u \in Urls, m \in Methods, d \in Payloads : StartSaveToCache(c, u, m, d)
  \/ \E c \in Calls, u \in Urls, m \in Methods : StartFetchUrl(c, u, m)
  \/ \E c \in Calls : StatDone(c)
  \/ \E c \in Calls : ReadPoll(c)
  \/ \E c \in Calls : ReadDone(c)
  \/ \E c \in Calls, o \in GetOutcomes \cup HeadOutcomes \cup MoreContentTypes :
       NetDone(c, o)
  \/ \E c \in Calls : RetryWake(c)
  \/ \E c \in Calls : WritePoll(c)
  \/ \E c \in Calls : MkdirDone(c)
  \/ \E c \in Calls : WriteOpen(c)
  \/ \E c \in Calls : WriteDone(c)
  \/ OtherStart
  \/ OtherDone
  \/ Tick

Spec == Init /\ [][Next]_vars

(***************************************************************************)
(* The requestor with a client that resets the connection on every         *)
(* attempt.  Timers fire and the client always answers, so a step that     *)
(* can be taken is taken.                                                  *)
(***************************************************************************)
ConnectionReset == Rejection(0, TRUE, "ECONNRESET")

ResetInit == Init /\ load \in {"light", "pair"}

ResetNext ==
  \/ \E c \in Calls, op \in {"getContents", "getHeaders"}, u \in Urls : StartGet(c, op, u)
  \/ \E c \in Calls, u \in Urls, m \in Methods : StartFetchUrl(c, u, m)
  \/ \E c \in Calls : \/ StatDone(c)
                       \/ NetDone(c, ConnectionReset)
                       \/ RetryWake(c)

ResetSpec == ResetInit /\ [][ResetNext]_vars /\ WF_vars(ResetNext)

(***************************************************************************)
(* The requestor under heavy load, with the file system, the client and    *)
(* the timers live: a file operation of the other calls that is in         *)
(* progress completes, and a sleeper wakes and checks the limiter again.   *)
(* Nothing orders the waiters, and nothing keeps the calls on other slots  *)
(* from starting new reads and writes.                                     *)
(***************************************************************************)
Answered ==
  {Response(200, Headers(HTML), "A"), Response(200, Headers(HTML), "")}

LimiterInit == Init /\ load = "heavy" /\ draft = "full"

LimiterNext ==
  \/ \E c \in Calls, op \in {"getContents", "getHeaders"}, u \in Urls : StartGet(c, op, u)
  \/ \E c \in Calls : StatDone(c)
  \/ \E c \in Calls : ReadPoll(c)
  \/ \E c \in Calls : ReadDone(c)
  \/ \E c \in Calls, o \in Answered : NetDone(c, o)
  \/ \E c \in Calls : WritePoll(c)
  \/ \E c \in Calls : MkdirDone(c)
  \/ \E c \in Calls : WriteOpen(c)
  \/ \E c \in Calls : WriteDone(c)
  \/ OtherStart
  \/ OtherDone

\* The timer of a sleeper fires: it checks the limiter again.
Poll == \E c \in Calls : ReadPoll(c) \/ WritePoll(c)

LimiterSpec ==
  /\ LimiterInit
  /\ [][LimiterNext]_vars
  /\ WF_vars(Poll)
  /\ WF_vars(OtherDone)

(***************************************************************************)
(* The requestor with a getContents and a getHeaders in progress at once,  *)
(* and a client that never gets a GET through: it leaves it unanswered or  *)
(* resets the connection, time after time.  HEAD requests are answered,    *)
(* and the file system and the timers are live for the getHeaders call: a  *)
(* step of it that can be taken is taken.                                  *)
(***************************************************************************)
HeadAnswers == HeadOutcomes \ {ConnectionReset}

StalledInit == Init /\ load = "pair" /\ draft = "full"

GetStalls(c) == call[c].op = "getContents" /\ NetDone(c, ConnectionReset)

HeadAnswered(c) == call[c].op = "getHeaders" /\ \E o \in HeadAnswers : NetDone(c, o)

\* The steps of a getHeaders call in progress.
HeadersStep(c) ==
  /\ call[c].op = "getHeaders"
  /\ \/ StatDone(c)
     \/ ReadDone(c)
     \/ HeadAnswered(c)
     \/ MkdirDone(c)
     \/ WriteOpen(c)
     \/ WriteDone(c)

StalledNext ==
  \/ \E c \in Calls, op \in {"getContents", "getHeaders"}, u \in Urls : StartGet(c, op, u)
  \/ \E c \in Calls : StatDone(c)
  \/ \E c \in Calls : ReadDone(c)
  \/ \E c \in Calls : GetStalls(c)
  \/ \E c \in Calls : HeadAnswered(c)
  \/ \E c \in Calls : RetryWake(c)
  \/ \E c \in Calls : MkdirDone(c)
  \/ \E c \in Calls : WriteOpen(c)
  \/ \E c \in Calls : WriteDone(c)
  \/ Tick

StalledSpec ==
  /\ StalledInit
  /\ [][StalledNext]_vars
  /\ \A c \in Calls : WF_vars(HeadersStep(c))

(***************************************************************************)
(* The claims.                                                             *)
(***************************************************************************)
InIO(r) == r.pc \in ReadPcs \cup WritePcs

Settled(r) == r.pc = "done"

\* C1: the count of open handles never exceeds ioQueueMaxHandles (50),
\* however many reads and writes are asked for at once.
C1_HandlesWithinCeiling == ioQueueOpenHandles <= ioQueueMaxHandles

\* C2: every increment of the count is matched by exactly one decrement,
\* whether the wrapped read, mkdir or write succeeds or throws: the count is
\* the number of reads and writes in progress, never negative, and 0 when
\* no call is in flight.
C2_HandlesAreOperationsInProgress ==
  /\ ioQueueOpenHandles = Cardinality({c \in Calls : InIO(call[c])}) + others
  /\ ioQueueOpenHandles >= 0
  /\ ((\A c \in Calls : ~Running(call[c])) /\ others = 0) => ioQueueOpenHandles = 0

\* A read or a write of a call has thrown (the slot is a directory), and
\* nothing is in flight any more.
C2_Witness ==
  /\ \E c \in Calls : Settled(call[c]) /\ call[c].res.err = "EISDIR"
  /\ \E c \in Calls : Settled(call[c]) /\ call[c].wrote /\ call[c].res.k = "return"
  /\ \A c \in Calls : ~Running(call[c])
  /\ ioQueueOpenHandles = 0

\* The slot the specification gives a URL of Urls: the cache root, the
\* segments of the URL's path, and the file <hostname>.html or .json.
SlotExt(method) == IF method = NETWORK_METHODS.GET THEN ".html" ELSE ".json"

ExpectedPath(url, method) ==
  CASE url = "http://a/x" -> "/c/x/a" \o SlotExt(method)
    [] url = "http://a/x/" -> "/c/x/a" \o SlotExt(method)
    [] url = "http://a/" -> "/c/a" \o SlotExt(method)
    [] url = "http://b/a.html" -> "/c/a.html/b" \o SlotExt(method)
    [] OTHER -> ""

Getters == {"getContents", "getHeaders"}

\* getFromCache was called and has settled.
LookedUp(r) == r.lk.k # "none"

\* C3: after saveToCache(url, method, payload), a getFromCache(url, method)
\* made before cacheDuration has passed, with no store in between, returns
\* exactly payload.
C3_StoreThenLookup ==
  \A c1, c2 \in Calls :
    ( /\ load = "light" /\ c1 < c2
      /\ call[c1].saved /\ LookedUp(call[c2])
      /\ ValidUrl(call[c1].url)
      /\ call[c2].url = call[c1].url /\ call[c2].method = call[c1].method
      /\ call[c2].seen # "stalefile" )
    => call[c2].lk = Returned(Str(call[c1].data))

\* C4: getFromCache returns absent when the slot's file is older than
\* cacheDuration, and returns absent without an error when the slot has no
\* file.
C4_LookupAbsent ==
  \A c \in Calls :
    (LookedUp(call[c]) /\ ValidUrl(call[c].url)) =>
      /\ call[c].seen = "stalefile" => call[c].lk = Returned(undefined)
      /\ fs[ExpectedPath(call[c].url, call[c].method)].kind = "none"
           => call[c].lk = Returned(undefined)

\* C5: the GET and HEAD slots of a URL are separate: getContents never
\* returns data that getHeaders stored, nor the reverse, and a store for
\* (url, method) writes the slot file of that method only.
C5_SlotsSeparate ==
  /\ \A c \in Calls : call[c].hitBy # NoArg => call[c].hitBy = call[c].method
  /\ \A n \in Nodes : fs[n].kind = "file" => endsWith(n, SlotExt(fs[n].by))
  /\ \A c \in Calls :
       (load # "heavy" /\ call[c].wrote /\ \A x \in Calls \ {c} : call[x].pc = "idle")
       => {n \in Nodes : fs[n].kind = "file"}
            \subseteq {ExpectedPath(call[c].url, call[c].method)}

\* getHeaders has stored its slot of a URL, and the getContents that
\* followed found its own slot missing, fetched and stored: both files exist.
C5_Witness ==
  \E c1, c2 \in Calls :
    /\ call[c1].op = "getHeaders" /\ Settled(call[c1]) /\ call[c1].wrote
    /\ call[c2].op = "getContents" /\ Settled(call[c2]) /\ call[c2].wrote
    /\ call[c2].url = call[c1].url /\ call[c2].seen = "ENOENT"
    /\ fs[call[c1].filePath].by = NETWORK_METHODS.HEAD
    /\ fs[call[c2].filePath].by = NETWORK_METHODS.GET

\* C6: getPathForUrl gives distinct (hostname, path, method) triples
\* distinct file paths.
Triple(r) == <<ParseURL(r.url).hostname, ParseURL(r.url).pathname, r.method>>

C6_PathInjective ==
  \A c1, c2 \in Calls :
    (call[c1].filePath # "" /\ call[c2].filePath # "" /\ Triple(call[c1]) # Triple(call[c2]))
    => call[c1].filePath # call[c2].filePath

\* C7: for a URL with hostname H and path /p1/.../pn, getPathForUrl returns
\* cacheRoot/p1/.../pn/H.html for GET and cacheRoot/p1/.../pn/H.json for HEAD.
C7_PathLayout ==
  \A c \in Calls :
    ((LookedUp(call[c]) \/ call[c].saved) /\ ValidUrl(call[c].url))
    => call[c].filePath = ExpectedPath(call[c].url, call[c].method)

\* C8: when the slot holds an entry younger than cacheDuration,
\* getContents / getHeaders returns the cached payload and makes no HTTP
\* request.
C8_FreshEntryServed ==
  \A c \in Calls :
    (call[c].op \in Getters /\ Settled(call[c]) /\ call[c].seen = "freshfile")
    => /\ call[c].reqs = 0
       /\ call[c].res.k = "return"
       /\ call[c].op = "getContents" => call[c].res.v = call[c].lk.v
       /\ call[c].op = "getHeaders"
            => call[c].res.v.t = "object"
               /\ JSONstringify(call[c].res.v.h) = call[c].lk.v.s

\* C9: when the slot's entry is older than cacheDuration, getContents makes
\* a new GET, and on a 200 answer overwrites the file and returns the newly
\* fetched body.
C9_StaleEntryRefetched ==
  \A c \in Calls :
    (call[c].op = "getContents" /\ Settled(call[c]) /\ call[c].seen = "stalefile")
    => /\ call[c].reqs >= 1
       /\ (call[c].out.kind = "response" /\ call[c].out.status = 200)
            => /\ call[c].wrote
               /\ call[c].res = Returned(fetchUrlContents(call[c].out).v)

\* C10: when the HTTP answer, a response or an error that carries one, has
\* a status other than 200, getContents / getHeaders returns absent without
\* throwing, and creates or changes no cache file.
C10_Non200IsAbsent ==
  \A c \in Calls :
    (call[c].op \in Getters /\ Settled(call[c]) /\ call[c].out.status \notin {0, 200})
    => /\ call[c].res = Returned(undefined)
       /\ ~call[c].saved
       /\ ~call[c].wrote

\* One call got a 404 response and another an error that carries a 404.
C10_Witness ==
  \E c1, c2 \in Calls :
    /\ Settled(call[c1]) /\ call[c1].out.kind = "response" /\ call[c1].out.status = 404
    /\ Settled(call[c2]) /\ call[c2].out.kind = "error" /\ call[c2].out.status = 404

\* The value the fetch of a call makes of the client's latest answer.
Is200(o) == o.kind = "response" /\ o.status = 200

FetchValue(r) ==
  IF r.op = "fetchUrl" THEN fetchUrl(r.out).v
  ELSE IF r.op = "getContents" THEN fetchUrlContents(r.out).v
  ELSE fetchUrlHeaders(r.out).v

\* How the fetch of a settled call settled on an answer it does not throw:
\* fetchUrl is the call itself, getContents / getHeaders keep what their
\* fetch returned.
FetchResult(r) == IF r.op = "fetchUrl" THEN r.res ELSE Returned(r.content)

\* C11: when the first attempt of a fetch is reset (ECONNRESET) and the
\* next one succeeds with status 200, the fetch waits, asks the client
\* again, and returns what it makes of the second answer, which getContents
\* / getHeaders then store.
C11_ResetThenSuccess ==
  \A c \in Calls :
    (Settled(call[c]) /\ call[c].reqs >= 2)
    => /\ call[c].out # ConnectionReset
       /\ Is200(call[c].out)
            => /\ FetchResult(call[c]) = Returned(FetchValue(call[c]))
               /\ (call[c].op \in Getters /\ Truthy(FetchValue(call[c])))
                    => call[c].saved

\* C12: with a client that resets the connection on every attempt, a fetch
\* that has asked the client settles (after a bounded number of attempts).
C12_ResetFetchEnds ==
  \A c \in Calls : (call[c].pc = "net") ~> Settled(call[c])

\* C13: every replay after a connection reset is made with the method of
\* the first attempt (and the same URL).
C13_ReplayKeepsMethod ==
  \A c \in Calls : call[c].reqs >= 2 => call[c].meth = call[c].method

\* C14: a transport failure that is not a connection reset and carries no
\* response status makes getContents / getHeaders throw it; nothing is
\* asked of the client again and nothing is stored.
FatalFailure(o) ==
  o.kind = "error" /\ o.status = 0 /\ o.code \notin {"", "ECONNRESET"}

C14_FatalFailureThrown ==
  \A c \in Calls :
    (call[c].op \in Getters /\ FatalFailure(call[c].out))
    => /\ Settled(call[c])
       /\ call[c].res = Thrown(call[c].out.code)
       /\ ~call[c].saved

\* One call threw the failure of its first attempt, another the failure of
\* the replay that followed a connection reset.
C14_Witness ==
  \E c1, c2 \in Calls :
    /\ FatalFailure(call[c1].out) /\ call[c1].reqs = 1 /\ call[c1].op = "getContents"
    /\ FatalFailure(call[c2].out) /\ call[c2].reqs = 2 /\ call[c2].op = "getHeaders"

\* C15: a getContents or getHeaders call with an empty url fails at once
\* with "URL must be provided.": the step that begins it settles it, and
\* leaves the cache, the count of open handles and the statistics as they
\* were; the call has looked up no entry, sent no request and stored
\* nothing.
C15_EmptyUrlStep(c) ==
  (call[c].pc = "idle" /\ call'[c].op \in Getters /\ call'[c].url = "")
    => /\ Settled(call'[c])
       /\ call'[c].res = Thrown("URL must be provided.")
       /\ fs' = fs
       /\ ioQueueOpenHandles' = ioQueueOpenHandles
       /\ stats' = stats
       /\ call'[c].filePath = "" /\ call'[c].seen = ""
       /\ call'[c].reqs = 0 /\ ~call'[c].saved /\ ~call'[c].wrote

C15_EmptyUrlFailsFirst == [][\A c \in Calls : C15_EmptyUrlStep(c)]_vars

C15_Witness ==
  /\ instrumenting
  /\ stats # NoStats
  /\ ioQueueOpenHandles > 0
  /\ \E c \in Calls : call[c].op \in Getters /\ call[c].url = "" /\ Settled(call[c])

\* A 200 answer whose content type is plainly not HTML, or is missing.
NonHtml200(o) ==
  Is200(o) /\ (~o.headers.has_ct \/ ~startsWith(o.headers.ct, "text/html"))

HtmlForm(h) == h.has_ct /\ startsWith(h.ct, "text/html;")

\* C17: a fetch whose GET was answered 200 gives the body when the
\* content type has the form `text/html; ...`, whatever the charset or
\* parameter, and the sentinel for every other content type and for a
\* missing header.
C17_HtmlExactlyTextHtml ==
  \A c \in Calls :
    (/\ Settled(call[c])
     /\ call[c].op \in {"getContents", "fetchUrl"}
     /\ call[c].meth = NETWORK_METHODS.GET
     /\ Is200(call[c].out))
      => FetchResult(call[c]) =
           Returned(IF HtmlForm(call[c].out.headers)
                    THEN Str(call[c].out.data) ELSE Str(FILEDATA))

\* A getHeaders whose lookup read, from a fresh file of the slot that the
\* getHeaders w stored to, the very text that w stored.
ServedFrom(r, w) ==
  /\ r.op = "getHeaders" /\ w.op = "getHeaders"
  /\ Is200(w.out) /\ w.wrote
  /\ r.filePath = w.filePath
  /\ r.seen = "freshfile"
  /\ r.lk = Returned(Str(w.data))

\* C18: a getHeaders that missed the cache and whose HEAD was answered 200
\* has, when it returns, written the JSON text of the headers to the HEAD
\* slot of the url, and returns the headers (or fails with the error of
\* the store); a later getHeaders served from that entry while fresh
\* returns an equal mapping, without a request.
C18_HeadersRoundTrip ==
  /\ \A c \in Calls : (call[c].op = "getHeaders" /\ Settled(call[c]) /\ Is200(call[c].out)) =>
        \/ call[c].fault # "" /\ call[c].res = Thrown(call[c].fault)
        \/ /\ call[c].res = Returned(Obj(call[c].out.headers))
           /\ call[c].saved /\ call[c].wrote
           /\ call[c].data = JSONstringify(call[c].out.headers)
           /\ call[c].filePath = ExpectedPath(call[c].url, NETWORK_METHODS.HEAD)
  /\ \A c1, c2 \in Calls : (Settled(call[c2]) /\ ServedFrom(call[c2], call[c1])) =>
        call[c2].res = Returned(Obj(call[c1].out.headers)) /\ call[c2].reqs = 0

C18_Witness ==
  /\ Settled(call[1]) /\ call[1].res = Returned(Obj(call[1].out.headers))
  /\ call[1].out.headers = Headers(PDF)
  /\ Settled(call[2]) /\ ServedFrom(call[2], call[1])
  /\ call[2].res = Returned(Obj(Headers(PDF)))

\* C19: a call whose stat failed other than by ENOENT, or whose readFile,
\* mkdir or writeFile failed, fails with that error: it is settled the
\* moment the operation fails and what it gives is the error, never
\* absent or a value, also when the fetch before the write succeeded.
C19_FileErrorsPropagate ==
  \A c \in Calls :
    /\ call[c].fault # "" =>
          Settled(call[c]) /\ call[c].res = Thrown(call[c].fault)
    /\ call[c].seen \notin {"", "ENOENT", "freshfile", "freshdir", "stalefile", "staledir"} =>
          call[c].fault = call[c].seen

C19_Witness ==
  \E c \in Calls :
    /\ call[c].op = "getContents" /\ call[c].seen = "staledir"
    /\ Is200(call[c].out) /\ Truthy(call[c].content) /\ call[c].saved
    /\ call[c].fault = "EISDIR" /\ call[c].res = Thrown("EISDIR")

\* C20: instrumenting changes nothing but the statistics.  Every step
\* leaves the calls (their positions, return values and errors), the files
\* of the cache and the count of open handles exactly as the same step
\* leaves them with instrumenting off; the steps that can follow and their
\* inputs depend on these alone, so the run with instrumenting on and the
\* run with it off agree step by step.
C20_InstrumentingIsInert ==
  plain = Plain(call, ioQueueOpenHandles, fs)

C20_Witness ==
  /\ instrumenting
  /\ stats.pendingWrites = 1 /\ stats.pendingRequests = 0
  /\ ioQueueOpenHandles = 1
  /\ \E c1, c2 \in Calls :
       /\ Settled(call[c1]) /\ call[c1].wrote /\ call[c1].res = Returned(Str("A"))
       /\ call[c2].pc = "write" /\ call[c2].reqs = 2

\* The positions in which a call awaits the HTTP client, sleeps before a
\* replay, or awaits the stat that decides between hit and miss.
OutsideIO == {"net", "retrySleep", "stat"}

\* C21: a call that awaits its HTTP request, sleeps in the retry delay or
\* is deciding between hit and miss holds no handle: the count of open
\* handles is made up by the reads and writes of the other calls alone,
\* also when the call has a read behind it.
C21_NoHandleOutsideFileIO ==
  \A c \in Calls : call[c].pc \in OutsideIO =>
    ioQueueOpenHandles = Cardinality({x \in Calls \ {c} : InIO(call[x])}) + others

C21_Witness ==
  \E c1, c2 \in Calls :
    /\ call[c1].pc = "net" /\ call[c1].seen = "freshfile"
    /\ call[c1].lk = Returned(Str(""))
    /\ call[c2].pc = "write"
    /\ ioQueueOpenHandles = 1

\* C22 (as stated): a call that found the limiter full and sleeps
\* eventually starts its read or write, the file operations in progress
\* all completing.
C22_WaiterEventuallyStarts ==
  \A c \in Calls : Waiting(call[c]) ~> InIO(call[c])

\* C22 (amended): a call that found the limiter full and sleeps eventually
\* starts its read or write, the file operations in progress all
\* completing, if from some moment on no other call starts a new read or
\* write.
C22_WaiterStartsOnceArrivalsStop ==
  <>[][~OtherStart]_vars => (\A c \in Calls : Waiting(call[c]) ~> InIO(call[c]))

C22_Witness ==
  \E c \in Calls : call[c].waited /\ call[c].pc \in {"read", "mkdir"} /\ others = ioQueueMaxHandles

\* The whole payloads the file p has held or is being given: the data of
\* the stores made to it, and what the cache folder held at the start.
WholePayloads(p) ==
  {call[x].data : x \in {y \in Calls : call[y].saved /\ call[y].filePath = p}}
    \cup (IF load = "heavy" /\ Warm[p].kind = "file" THEN {Warm[p].data} ELSE {})

\* C23: a lookup never gives a partly written or empty payload: what
\* getFromCache returns is absent or the whole payload of a store made to
\* that slot, also when a store to the slot is under way.
C23_LookupSeesWholePayload ==
  \A c \in Calls :
    (call[c].lk.k = "return" /\ call[c].lk.v # undefined)
      => /\ call[c].lk.v.s # ""
         /\ call[c].lk.v.s \in WholePayloads(call[c].filePath)

\* Two getContents, or two getHeaders, that ran at the same time on one
\* slot, both missed, both fetched and both wrote, and have returned.
BothWrote(r1, r2) ==
  /\ r1.op \in Getters /\ r2.op = r1.op
  /\ r1.filePath = r2.filePath
  /\ r1.lk = Returned(undefined) /\ r2.lk = Returned(undefined)
  /\ r1.wrote /\ r2.wrote
  /\ r1.res.k = "return" /\ r2.res.k = "return"

\* C24: two overlapping getContents (or getHeaders) on one slot that both
\* missed both fetch and both write; each returns what its own fetch gave,
\* and once both have returned the slot holds exactly the payload of one
\* of the two writes, the one that completed last.
C24_LastWriteWins ==
  \A c1, c2 \in Calls : (c1 # c2 /\ BothWrote(call[c1], call[c2])) =>
    /\ call[c1].res = Returned(FetchValue(call[c1]))
    /\ call[c2].res = Returned(FetchValue(call[c2]))
    /\ fs[call[c1].filePath].kind = "file"
    /\ fs[call[c1].filePath].data \in {call[c1].data, call[c2].data}

\* The errors the requestor threw at the transform, in order.
ThrownAt(got) == SelectSeq(got, LAMBDA g : g.k = "throw")

\* C25: transform never throws: it settles by returning a record, and when
\* the requestor threw, the record has errorStep set and every error the
\* requestor threw is in its fetchErrors.
C25_TransformNeverThrows ==
  xf.pc = "done" =>
    /\ xf.res.k = "return"
    /\ ThrownAt(xf.got) # <<>> =>
         /\ xf.errorStep \in {"FETCH_HEADERS", "FETCH_CONTENT"}
         /\ \A i \in 1..Len(ThrownAt(xf.got)) :
              \E j \in 1..Len(xf.fetchErrors) : xf.fetchErrors[j] = ThrownAt(xf.got)[i].err

C25_Witness ==
  /\ xf.pc = "done" /\ Len(xf.got) = 4
  /\ xf.got[3].k = "throw" /\ xf.got[4].k = "throw"
  /\ xf.errorStep = "FETCH_CONTENT" /\ Len(xf.fetchErrors) = 2

\* C26: when getHeaders or getContents gave absent for either host, the
\* record transform returns reports the failure, with errorStep set and
\* fetchErrors not empty, and is no FILE or WEBPAGE record.
C26_AbsentIsReported ==
  (xf.pc = "done" /\ \E i \in 1..Len(xf.got) : xf.got[i] = Returned(undefined)) =>
    /\ xf.errorStep \in {"FETCH_HEADERS", "FETCH_CONTENT"}
    /\ xf.fetchErrors # <<>>
    /\ xf.resourceType = ""

\* The positions in which a file operation of the call is outstanding:
\* the stat, the read, the mkdir, the write.
FilePcs == {"stat"} \cup ReadPcs \cup WritePcs

\* C27: every file operation of a lookup or a store, the stat included,
\* runs while its call holds a handle: the count of open handles is the
\* number of file operations outstanding, and these, stats included, are
\* never more than ioQueueMaxHandles.
C27_EveryFileOperationHoldsHandle ==
  /\ ioQueueOpenHandles = Cardinality({c \in Calls : call[c].pc \in FilePcs}) + others
  /\ Cardinality({c \in Calls : call[c].pc \in FilePcs}) + others <= ioQueueMaxHandles

\* C28: for every cacheDuration d and every age of the entry, the
\* freshness test of the instance's getFromCache says fresh exactly when
\* the age is below d: fresh at d - 1, a miss at d and beyond.
C28_FreshIffYoungerThanDuration ==
  \A d \in 1..MaxAge, age \in 0..MaxAge + 1 :
    isFresh(draft, age, d) <=> age < d

\* The step of a getContents / getHeaders call a position belongs to:
\* 1 the cache check, 2 the network fetch, 3 the store.
Phase(pc) ==
  CASE pc = "idle" -> 0
    [] pc \in {"stat", "read", "readWait"} -> 1
    [] pc \in {"net", "retrySleep"} -> 2
    [] pc \in {"writeWait", "mkdir", "open", "write"} -> 3
    [] OTHER -> 4

\* A getContents / getHeaders call moves from the cache check to the
\* fetch, from the fetch to the store, and never back; it reaches the
\* fetch from the cache check only, and the store from the fetch only.
InOrder(r, t) ==
  (r.pc # "done" /\ t.op \in Getters) =>
    /\ Phase(t.pc) >= Phase(r.pc)
    /\ (Phase(t.pc) = 2 /\ Phase(r.pc) # 2) => Phase(r.pc) = 1
    /\ (Phase(t.pc) = 3 /\ Phase(r.pc) # 3) => Phase(r.pc) = 2
    /\ Phase(r.pc) = 0 => Phase(t.pc) \in {0, 1, 4}

\* What a getContents / getHeaders call has done by now, against its
\* lookup and its fetch.
Ordered(r) ==
  r.op \in Getters =>
    /\ r.reqs >= 1 => (r.lk.k = "return" /\ ~Truthy(r.lk.v))
    /\ r.saved => (r.reqs >= 1 /\ Is200(r.out) /\ Truthy(r.content))
    /\ (r.saved /\ Settled(r) /\ r.res.k = "return") => r.wrote
    /\ (r.wrote \/ Phase(r.pc) = 3) => r.saved
    /\ (Phase(r.pc) = 3 \/ Running(r)) => r.res = NoResult

\* C29: within one getContents / getHeaders call the steps come in the
\* order cache check, network fetch (on a miss), store (on a successful
\* fetch), return: a store begins only after a 200 fetch with content of
\* the same call, it is over before the call returns its value, and a
\* call that hit, or whose fetch was non-200 or failed, stores nothing.
C29_StepsInOrder ==
  /\ [](\A c \in Calls : Ordered(call[c]))
  /\ [][\A c \in Calls : InOrder(call[c], call'[c])]_vars

C29_Witness ==
  \E c \in Calls :
    /\ call[c].op = "getHeaders" /\ Settled(call[c])
    /\ call[c].seen = "stalefile" /\ call[c].reqs = 2
    /\ call[c].saved /\ call[c].wrote /\ call[c].res.k = "return"

\* C30: in the full draft, getContents and getHeaders return absent only
\* after a lookup that missed and a fetch that ended other than with a
\* 200: a call whose fetch got a 200 returns a value and has stored it,
\* whatever the body, and a call that read a fresh entry returns it as a
\* hit without a request, whatever the stored payload.
C30_AbsentOnlyOnMissAndNon200 ==
  \A c \in Calls :
    (draft = "full" /\ call[c].op \in Getters /\ Settled(call[c])) =>
      /\ (Is200(call[c].out) /\ call[c].res.k = "return")
           => (call[c].res.v # undefined /\ call[c].saved)
      /\ (call[c].seen = "freshfile" /\ call[c].lk.k = "return")
           => (call[c].reqs = 0 /\ call[c].res.k = "return"
               /\ call[c].res.v # undefined)
      /\ call[c].res = Returned(undefined)
           => (call[c].lk = Returned(undefined) /\ call[c].reqs >= 1
               /\ ~Is200(call[c].out))

\* The answers after which a fetch gives absent or throws: a status other
\* than 200, or a failure of the transport that is not a reset.
Failed(o) == o # NoOutcome /\ o # ConnectionReset /\ ~Is200(o)

\* A call is in its fetch, before the first answer or between replays, or
\* its fetch has ended without a 200.
FetchingOrFailed(r) ==
  \/ r.pc \in {"net", "retrySleep"}
  \/ Settled(r) /\ r.reqs >= 1 /\ Failed(r.out)

\* C31: while a call is in its fetch, replaying after connection resets,
\* and when its fetch has ended with a status other than 200 or with a
\* fatal failure, the call has changed nothing in the cache: it has begun
\* no store and created or changed no file or directory, and every step it
\* takes from the request or the retry delay leaves the content and the
\* age of every file as they were.
C31_FailedFetchLeavesCache ==
  /\ [](\A c \in Calls : FetchingOrFailed(call[c]) => (~call[c].saved /\ ~call[c].wrote))
  /\ [][\A c \in Calls :
          (call[c].pc \in {"net", "retrySleep"} /\ call'[c] # call[c]) => fs' = fs]_vars

\* A call found its slot's file stale, was reset, replayed, and got a 404:
\* the file is there as it was.
C31_Witness ==
  \E c \in Calls :
    /\ Settled(call[c]) /\ call[c].seen = "stalefile" /\ call[c].reqs = 2
    /\ call[c].out.status = 404 /\ call[c].res = Returned(undefined)
    /\ fs[call[c].filePath].kind = "file" /\ fs[call[c].filePath].data = "A"

\* A getContents whose request is in flight or that sleeps before a replay.
Blocked(r) == r.op = "getContents" /\ r.pc \in {"net", "retrySleep"}

\* C32: a call blocked on its slot, its request in flight, in the retry
\* delay, or replaying for ever, keeps no call on another slot from
\* completing: a getHeaders in progress, whose own request is answered,
\* settles, whatever the getContents beside it is waiting for.
C32_OtherSlotCompletes ==
  \A c \in Calls : (call[c].op = "getHeaders" /\ Running(call[c])) ~> Settled(call[c])

\* The getHeaders has stored and returned while the getContents that
\* started before it sleeps before its second attempt.
C32_Witness ==
  /\ Blocked(call[1]) /\ call[1].pc = "retrySleep"
  /\ call[2].op = "getHeaders" /\ Settled(call[2]) /\ call[2].wrote
  /\ call[2].res.k = "return"

\* C33: the limiter keeps no order of arrival.  Whenever the count of open
\* handles allows it, a caller that comes to the limiter is let in at
\* once, also while a call that came earlier and found it full still
\* sleeps; so a later caller can start its read or write before an
\* earlier one.
C33_NoArrivalOrder ==
  (/\ load = "heavy" /\ others < NOthers
   /\ ioQueueOpenHandles <= ioQueueMaxHandles
   /\ \E c \in Calls : Waiting(call[c]))
    => ENABLED OtherStart

\* A call came to the limiter at capacity and sleeps; a file operation
\* ended and a caller that came after was let in before it.
C33_Witness ==
  \E c \in Calls :
    /\ Waiting(call[c]) /\ call[c].passed
    /\ ioQueueOpenHandles = ioQueueMaxHandles + 1

\* C34: a method that is neither GET nor HEAD is a fault, and no operation
\* of the requestor passes one on: every request attempt of a call hands
\* instNetReq GET or HEAD, and every store resolves its path with GET or
\* HEAD; an attempt with another method would throw "Unknown Method"
\* with no request issued, no file written and the statistics restored.
C34_OnlyGetOrHead ==
  \A c \in Calls :
    /\ call[c].reqs >= 1 => call[c].meth \in Methods
    /\ call[c].saved => storeMethod(draft, call[c]) \in Methods
    /\ call[c].res = Thrown("Unknown Method")
         => (call[c].pc = "done" /\ ~call[c].wrote /\ stats.pendingRequests = 0)

\* C35: in the full draft, a getContents or getHeaders call with a url
\* that is not empty and does not parse as an absolute URL fails with the
\* error of the path resolution (new URL throws): the step that begins it
\* settles it, before any stat, read, write or request, and leaves the
\* cache and the count of open handles as they were.
C35_UnparsableUrlStep(c) ==
  (/\ draft = "full" /\ call[c].pc = "idle" /\ call'[c].op \in Getters
   /\ call'[c].url # "" /\ ~ValidUrl(call'[c].url))
    => /\ Settled(call'[c])
       /\ call'[c].res = Thrown("ERR_INVALID_URL")
       /\ fs' = fs
       /\ ioQueueOpenHandles' = ioQueueOpenHandles
       /\ call'[c].filePath = "" /\ call'[c].seen = ""
       /\ call'[c].reqs = 0 /\ ~call'[c].saved /\ ~call'[c].wrote

C36_NothingDeleted ==
  [][/\ \A n \in Nodes : fs[n].kind # "none" => fs'[n].kind = fs[n].kind
     /\ \A c \in Calls :
          (call[c].pc = "stat" /\ call'[c].seen = "stalefile") => fs' = fs]_vars

\* A call found its file too old and is fetching; the file holds what it
\* held, at the age it had.
C36_Witness ==
  \E c \in Calls :
    /\ call[c].seen = "stalefile" /\ call[c].lk = Returned(undefined)
    /\ call[c].pc = "net"
    /\ fs[call[c].filePath] = [FileNode("A", call[c].method) EXCEPT !.age = MaxAge]

\* The operations of a kind in flight: the calls inside the wrapper that
\* counts it (those asleep at the limiter are inside instReadFile or
\* instWriteFile), and for the reads those of the calls on other slots.
InFlight(kind) ==
  Cardinality({c \in Calls : StatOf(call[c].pc) = kind})
    + (IF kind = "Reads" THEN others ELSE 0)

\* C37: with instrumenting set, each of pendingStats, pendingReads,
\* pendingWrites and pendingRequests is the number of operations of its
\* kind in flight, the callers asleep at the limiter included: each start
\* has counted once and each end, by success or by failure, once; so no
\* counter is negative and all are 0 when nothing is in flight.  With
\* instrumenting not set all four stay 0.
C37_StatsCountOperationsInFlight ==
  IF instrumenting
  THEN /\ stats.pendingStats = InFlight("Stats")
       /\ stats.pendingReads = InFlight("Reads")
       /\ stats.pendingWrites = InFlight("Writes")
       /\ stats.pendingRequests = InFlight("Requests")
       /\ \A k \in DOMAIN stats : stats[k] >= 0
  ELSE stats = NoStats

\* Under instrumenting, a call sleeps at the limiter with 51 reads of other
\* calls in progress: 52 reads are pending.
C37_Witness ==
  /\ instrumenting
  /\ \E c \in Calls : call[c].pc = "readWait"
  /\ stats.pendingReads = ioQueueMaxHandles + 2

\* A step of the store of call c: its mkdir or its writeFile acts.
StoreStep(c) == call[c].pc \in WritePcs /\ call'[c] # call[c]

\* C38: a store changes the file of its own slot only and succeeds
\* whatever files the other slots have: every step of a store leaves the
\* content and the age of every other file as they were, and every store
\* for a url that parses has, when its call settles, written its file
\* without an error.
C38_StoreTouchesOwnSlotOnly ==
  /\ [][\A c \in Calls : StoreStep(c) =>
          \A n \in Nodes \ {call[c].filePath} : fs[n].kind = "file" => fs'[n] = fs[n]]_vars
  /\ [](\A c \in Calls :
          (call[c].saved /\ Settled(call[c]) /\ ValidUrl(call[c].url))
            => (call[c].res.k = "return" /\ call[c].wrote /\ call[c].fault = ""))

\* The requests transform has made by now: those settled, and the one it
\* awaits.
Requested(x) ==
  Len(x.got) + (IF x.pc \in {"idle", "done"} THEN 0 ELSE 1)

\* The request a position awaits, by its place in the order.
Awaits(pc) ==
  CASE pc = "sourceHeaders" -> 1
    [] pc = "destinationHeaders" -> 2
    [] pc = "sourceContent" -> 3
    [] pc = "destinationContent" -> 4
    [] OTHER -> 0

\* getHeaders gave headers, neither absent nor an error.
GaveHeaders(g) == g.k = "return" /\ Truthy(g.v)

\* C39: transform makes its requests in the order getHeaders(source),
\* getHeaders(destination), getContents(source), getContents(destination),
\* each begun when the one before has settled; it asks for content only
\* when both getHeaders gave headers and the source content type starts
\* with `text/html;`, and otherwise returns after the two getHeaders, the
\* failure if headers are missing and else the FILE record.
C39_RequestsInOrder ==
  /\ Awaits(xf.pc) # 0 => Len(xf.got) = Awaits(xf.pc) - 1
  /\ Requested(xf) > 2 =>
       /\ GaveHeaders(xf.got[1]) /\ GaveHeaders(xf.got[2])
       /\ HtmlForm(xf.got[1].v.h)
  /\ xf.pc = "done" =>
       /\ Len(xf.got) \in {2, 4}
       /\ (Len(xf.got) = 2 /\ GaveHeaders(xf.got[1]) /\ GaveHeaders(xf.got[2]))
            => (xf.resourceType = "FILE" /\ ~HtmlForm(xf.got[1].v.h))
       /\ xf.resourceType = "FILE" => Len(xf.got) = 2
       /\ xf.resourceType = "WEBPAGE" => Len(xf.got) = 4

\* Both hosts gave headers, the source's with the content type text/html
\* and no parameter: transform returned the FILE record after two requests.
C39_Witness ==
  /\ xf.pc = "done" /\ Len(xf.got) = 2
  /\ xf.got[1] = Returned(Obj(Headers(HTML_BARE)))
  /\ GaveHeaders(xf.got[2])
  /\ xf.resourceType = "FILE"

====
